---- MODULE Spec2Model ----
(***************************************************************************)
(* Model of the local model storage (core/storage/__init__.py,            *)
(* ApplicationStorage) and of the cloud synchronisation commands          *)
(* (cloud/commands.py, FullCleanCommand) of serverauditor_sshconfig.      *)
(*                                                                         *)
(* A raw record is [id, v]: its identifier and one opaque data field.     *)
(* id = 0 stands for a falsy identifier (None / 0): "no id".              *)
(* Python's assert statements are modelled as enabled (the default).      *)
(***************************************************************************)
EXTENDS Integers, Sequences, FiniteSets, TLC

\* ---------------------------------------------------------------- bounds
MaxId == 3          \* identifiers are 1..MaxId
MaxStore == 3       \* records the storage operations let the store grow to
MaxInit == 2        \* records in the store a process starts with
MaxRuns == 2        \* cloud commands run by one process

Ids == 1..MaxId

\* The data field is opaque to the storage; queries compare it.  Two values.
Vals == {0, 1}

NoId == 0

\* ---------------------------------------------------------------- types
\* cloud/commands.py:8-14, the model classes; a class is named by its name,
\* and its set_name is the key of its Record Set in the driver.
Types ==
    {"SshKey", "Snippet", "SshIdentity", "SshConfig", "Tag", "Group",
     "Host", "PFRule", "TagHost"}

\* The model classes the storage operations are exercised with.
CrudTypes == {"Host", "Tag"}

Models == [id : {NoId} \cup Ids, v : Vals]
NoModel == [id |-> NoId, v |-> 0]

VARIABLES
    driver,     \* PersistentDict in memory: set name -> list of raw records
    disk,       \* the driver's contents as of its last sync()
    syncs,      \* driver.sync() calls since the outermost session was entered
    tombs,      \* Delete Strategy calls <<set name, id>> since the caller's call began
    pc,         \* position of the process
    exc,        \* exception in flight / propagated to the caller ("none")
    ret,        \* the storage operation last called and its outcome
    it,         \* FullCleanCommand.supported_models: next index of the iterator
    instances,  \* full_clean: models of the current class still to delete
    log,        \* phases of the current cloud command, in order
    runs,       \* cloud commands started by this process
    cleans      \* full_clean() calls started by this process

vars ==
    <<driver, disk, syncs, tombs, pc, exc, ret, it, instances, log, runs,
      cleans>>

\* ------------------------------------------------------------ list helpers
IdsOf(s) == {s[i].id : i \in 1..Len(s)}

CountId(s, ident) == Cardinality({i \in 1..Len(s) : s[i].id = ident})

UniqueIds(s) == \A i, j \in 1..Len(s) : s[i].id = s[j].id => i = j

RemoveAt(s, k) == [i \in 1..(Len(s) - 1) |-> IF i < k THEN s[i] ELSE s[i + 1]]

\* ------------------------------------------------------------- strategies
\* SaveStrategy.save of the default strategy: returns the model as is.
SaverSave(m) == m

\* GetStrategy.get of the default strategy: returns the model as is.
GetterGet(m) == m

\* UUIDGenerator: the ids it may return for a new model of class t.
GenerateIds(d, t) == Ids \ IdsOf(d[t])

\* ------------------------------------------------------------------ query
\* A lookup is one keyword argument 'field.operator' = value.
Lookups ==
    [field : {"id"}, op : {"eq", "ge", "le"}, val : Ids]
        \cup [field : {"v"}, op : {"eq", "ge", "le"}, val : Vals]

LookupKey(l) == <<l.field, l.op>>

\* kwargs is a dict, so its keys are distinct: none, one or two lookups.
Kwargs ==
    {{}} \cup {{a} : a \in Lookups}
         \cup {{p[1], p[2]} :
                   p \in {x \in Lookups \X Lookups :
                              LookupKey(x[1]) # LookupKey(x[2])}}

Queries == [union : {"all", "any"}, kwargs : Kwargs]

NoQuery == [union |-> "all", kwargs |-> {}]

IdQuery(ident) ==
    [union |-> "all", kwargs |-> {[field |-> "id", op |-> "eq", val |-> ident]}]

FieldOf(m, f) == IF f = "id" THEN m.id ELSE m.v

LookupHolds(l, m) ==
    CASE l.op = "eq" -> FieldOf(m, l.field) = l.val
      [] l.op = "ge" -> FieldOf(m, l.field) >= l.val
      [] l.op = "le" -> FieldOf(m, l.field) <= l.val

\* Query.__call__: the lookups combined with all() or any().
QueryHolds(q, m) ==
    IF q.union = "any"
    THEN \E l \in q.kwargs : LookupHolds(l, m)
    ELSE \A l \in q.kwargs : LookupHolds(l, m)

\* ---------------------------------------------------------------- storage
\* InternalModelContructor.__call__: wraps the raw record, nothing else.
InternalModelContructor(raw) == raw

\* ModelContructor.__call__: wraps the raw record, then the Get Strategy.
ModelContructor(raw) == GetterGet(InternalModelContructor(raw))

\* _internal_get_all(model_class)
InternalGetAll(d, t) == [i \in 1..Len(d[t]) |-> InternalModelContructor(d[t][i])]

\* get_all(model_class)
GetAll(d, t) == [i \in 1..Len(d[t]) |-> ModelContructor(d[t][i])]

\* Mutant of InternalUpdate: the list is appended to but not written back.
InternalUpdateNoWrite(d, t, m) == d

\* Mutant of InternalUpdate: the list is written under one fixed set name.
InternalUpdateOtherSet(d, t, m) ==
    [d EXCEPT !["Host"] = Append(InternalGetAll(d, t), m)]

\* _internal_update(model): append the model to its list and write the list.
InternalUpdate(d, t, m) == [d EXCEPT ![t] = Append(InternalGetAll(d, t), m)]

\* The loop of _internal_delete reaches its break: some model has the id.
Found(models, ident) == \E i \in 1..Len(models) : models[i].id = ident

\* Mutant of PopFirst: models.pop(0) in place of models.pop(index).
PopHead(models, ident) ==
    IF Found(models, ident) THEN Tail(models) ELSE models

\* The loop of _internal_delete: pop the first model with the id, then break.
PopFirst(models, ident) ==
    IF Found(models, ident)
    THEN RemoveAt(models,
                  CHOOSE i \in 1..Len(models) :
                      /\ models[i].id = ident
                      /\ \A j \in 1..(i - 1) : models[j].id # ident)
    ELSE models

\* Mutant of InternalDelete: the list is popped from but not written back.
InternalDeleteNoWrite(d, t, ident) == d

\* _internal_delete(model), after its assert: write the list without the model.
InternalDelete(d, t, ident) ==
    [d EXCEPT ![t] = PopFirst(InternalGetAll(d, t), ident)]

\* save(model) of a model that carries an id, when mark_model returns:
\* update pops the record with the id, then appends the model.
SaveIdentified(d, t, m) == InternalUpdate(InternalDelete(d, t, m.id), t, m)

\* Mutant of Filter: each matching model is put in front of the earlier ones.
FilterReversed(d, t, q) ==
    LET hits == SelectSeq(GetAll(d, t), LAMBDA m : QueryHolds(q, m))
    IN  [i \in 1..Len(hits) |-> hits[Len(hits) + 1 - i]]

\* filter(model_class, query_union, **kwargs), after its asserts.
Filter(d, t, q) == SelectSeq(GetAll(d, t), LAMBDA m : QueryHolds(q, m))

\* filter: assert isinstance(model_class, type); assert kwargs.
FilterStatus(q) == IF q.kwargs = {} THEN "AssertionError" ELSE "ok"

\* Mutant of GetStatus: the first of several matches is returned.
GetStatusFirst(d, t, q) ==
    IF q.kwargs = {} THEN "AssertionError"
    ELSE IF Filter(d, t, q) = <<>> THEN "DoesNotExistException"
    ELSE "ok"

\* get(model_class, query_union, **kwargs): the exception it raises, or "ok".
GetStatus(d, t, q) ==
    IF q.kwargs = {} THEN "AssertionError"
    ELSE IF Filter(d, t, q) = <<>> THEN "DoesNotExistException"
    ELSE IF Len(Filter(d, t, q)) # 1 THEN "TooManyEntriesException"
    ELSE "ok"

\* get: the models it returns (founded_models[0]), none when it raises.
GetOut(d, t, q) ==
    IF GetStatus(d, t, q) = "ok" THEN <<Filter(d, t, q)[1]>> ELSE <<>>

\* ------------------------------------------------------------- operations
\* found: the loop of _internal_delete reached its break.
Ret(op, status, t, m, q, out, found) ==
    [op |-> op, status |-> status, t |-> t, m |-> m, q |-> q, out |-> out,
     found |-> found]

NoRet == Ret("none", "ok", "Host", NoModel, NoQuery, <<>>, FALSE)

RECURSIVE SizeOver(_, _)
SizeOver(d, ts) ==
    IF ts = {} THEN 0
    ELSE LET t == CHOOSE x \in ts : TRUE
         IN  Len(d[t]) + SizeOver(d, ts \ {t})

\* Records in the store.
Size(d) == SizeOver(d, Types)

\* The store may grow by one record.
MayGrow == Size(driver) < MaxStore

CommandIdle == UNCHANGED <<it, instances, log, runs, cleans>>

\* An exception leaves the operation and the body of the session.
Raise(op, e, t, m, q, found) ==
    /\ pc' = "raised"
    /\ exc' = e
    /\ ret' = Ret(op, e, t, m, q, <<>>, found)

Return(op, t, m, q, out, found) ==
    /\ pc' = "body"
    /\ exc' = exc
    /\ ret' = Ret(op, "ok", t, m, q, out, found)

\* Mutant of SessionExit: the driver is synced only when the body returned.
SessionExitOnSuccess ==
    IF exc = "none"
    THEN /\ disk' = driver
         /\ syncs' = syncs + 1
    ELSE UNCHANGED <<disk, syncs>>

\* __exit__(exc_type, exc_val, exc_tb): sync the driver, return None.
SessionExit ==
    /\ disk' = driver
    /\ syncs' = syncs + 1

\* Mutant of create: no assert, the id the model carries is overwritten.
createNoAssert(op, t, m) ==
    /\ MayGrow
    /\ \E new \in GenerateIds(driver, t) :
          /\ driver' = InternalUpdate(driver, t, [m EXCEPT !.id = new])
          /\ Return(op, t, m, NoQuery, <<[m EXCEPT !.id = new]>>, FALSE)

\* create(model): assert no id, generate one, append.
create(op, t, m) ==
    IF m.id # NoId
    THEN /\ Raise(op, "AssertionError", t, m, NoQuery, FALSE)
         /\ UNCHANGED driver
    ELSE /\ MayGrow
         /\ \E new \in GenerateIds(driver, t) :
               /\ driver' = InternalUpdate(driver, t, [m EXCEPT !.id = new])
               /\ Return(op, t, m, NoQuery, <<[m EXCEPT !.id = new]>>, FALSE)

\* Mutant of update: the model is appended and the old record is left in.
updateNoDelete(op, t, m) ==
    IF m.id = NoId
    THEN /\ Raise(op, "AssertionError", t, m, NoQuery, FALSE)
         /\ UNCHANGED driver
    ELSE /\ MayGrow
         /\ driver' = driver
         /\ pc' = "upd_mark"
         /\ exc' = exc
         /\ ret' = Ret(op, "running", t, m, NoQuery, <<>>,
                        Found(InternalGetAll(driver, t), m.id))

\* update(model) up to and including _internal_delete.
update(op, t, m) ==
    IF m.id = NoId
    THEN /\ Raise(op, "AssertionError", t, m, NoQuery, FALSE)
         /\ UNCHANGED driver
    ELSE /\ MayGrow \/ m.id \in IdsOf(driver[t])
         /\ driver' = InternalDelete(driver, t, m.id)
         /\ pc' = "upd_mark"
         /\ exc' = exc
         /\ ret' = Ret(op, "running", t, m, NoQuery, <<>>,
                        Found(InternalGetAll(driver, t), m.id))

\* Mutant of delete: an id that is not in the list raises, before the
\* Delete Strategy is called.
deleteChecked(d, tb, t, m) ==
    IF m.id = NoId
    THEN [status |-> "AssertionError", driver |-> d, tombs |-> tb,
          found |-> FALSE]
    ELSE IF ~Found(InternalGetAll(d, t), m.id)
    THEN [status |-> "DoesNotExistException", driver |-> d, tombs |-> tb,
          found |-> FALSE]
    ELSE [status |-> "ok",
          driver |-> InternalDelete(d, t, m.id),
          tombs |-> Append(tb, <<t, m.id>>),
          found |-> TRUE]

\* delete(model): _internal_delete (with its assert), then the Delete
\* Strategy's delete.  The outcome: status, driver and strategy calls.
delete(d, tb, t, m) ==
    IF m.id = NoId
    THEN [status |-> "AssertionError", driver |-> d, tombs |-> tb,
          found |-> FALSE]
    ELSE [status |-> "ok",
          driver |-> InternalDelete(d, t, m.id),
          tombs |-> Append(tb, <<t, m.id>>),
          found |-> Found(InternalGetAll(d, t), m.id)]

\* with storage: (__enter__ returns self)
Enter ==
    /\ pc = "start"
    /\ pc' = "body"
    /\ UNCHANGED <<driver, disk, syncs, tombs, exc, ret>>
    /\ CommandIdle

\* save(model)
Save(t, m) ==
    /\ pc = "body"
    /\ IF SaverSave(m).id # NoId
       THEN update("save", t, SaverSave(m))
       ELSE create("save", t, SaverSave(m))
    /\ tombs' = <<>>
    /\ UNCHANGED <<disk, syncs>>
    /\ CommandIdle

\* create(model) called by the user of the storage
Create(t, m) ==
    /\ pc = "body"
    /\ create("create", t, m)
    /\ tombs' = <<>>
    /\ UNCHANGED <<disk, syncs>>
    /\ CommandIdle

\* update(model) called by the user of the storage
Update(t, m) ==
    /\ pc = "body"
    /\ update("update", t, m)
    /\ tombs' = <<>>
    /\ UNCHANGED <<disk, syncs>>
    /\ CommandIdle

\* Mutant of UpdateAppend: the new version takes the head of the list.
UpdateInFront ==
    /\ pc = "upd_mark"
    /\ driver' = [driver EXCEPT ![ret.t] = <<ret.m>> \o InternalGetAll(driver, ret.t)]
    /\ Return(ret.op, ret.t, ret.m, NoQuery, <<ret.m>>, ret.found)
    /\ UNCHANGED <<disk, syncs, tombs>>
    /\ CommandIdle

\* update(model), lines 100-101: mark_model returns, then _internal_update.
UpdateAppend ==
    /\ pc = "upd_mark"
    /\ driver' = InternalUpdate(driver, ret.t, ret.m)
    /\ Return(ret.op, ret.t, ret.m, NoQuery, <<ret.m>>, ret.found)
    /\ UNCHANGED <<disk, syncs, tombs>>
    /\ CommandIdle

\* update(model), line 100: the Save Strategy's mark_model raises.
UpdateMarkRaises ==
    /\ pc = "upd_mark"
    /\ Raise(ret.op, "StrategyError", ret.t, ret.m, NoQuery, ret.found)
    /\ UNCHANGED <<driver, disk, syncs, tombs>>
    /\ CommandIdle

\* delete(model) called by the user of the storage
Delete(t, m) ==
    /\ pc = "body"
    /\ driver' = delete(driver, <<>>, t, m).driver
    /\ tombs' = delete(driver, <<>>, t, m).tombs
    /\ IF delete(driver, <<>>, t, m).status = "ok"
       THEN Return("delete", t, m, NoQuery, <<>>,
                   delete(driver, <<>>, t, m).found)
       ELSE Raise("delete", delete(driver, <<>>, t, m).status, t, m, NoQuery,
                  FALSE)
    /\ UNCHANGED <<disk, syncs>>
    /\ CommandIdle

\* Leaving the with block, normally or with the exception in flight.
Exit ==
    /\ pc \in {"body", "raised"}
    /\ SessionExit
    /\ pc' = "out"
    /\ UNCHANGED <<driver, tombs, exc, ret>>
    /\ CommandIdle

EmptyStore == [t \in Types |-> <<>>]

Init ==
    /\ driver = EmptyStore
    /\ disk = EmptyStore
    /\ syncs = 0
    /\ tombs = <<>>
    /\ pc = "start"
    /\ exc = "none"
    /\ ret = NoRet
    /\ it = 1
    /\ instances = <<>>
    /\ log = <<>>
    /\ runs = 0
    /\ cleans = 0

Next ==
    \/ Enter
    \/ \E t \in CrudTypes, m \in Models : Save(t, m)
    \/ \E t \in CrudTypes, m \in Models : Create(t, m)
    \/ \E t \in CrudTypes, m \in Models : Update(t, m)
    \/ UpdateAppend
    \/ UpdateMarkRaises
    \/ \E t \in CrudTypes, m \in Models : Delete(t, m)
    \/ Exit

Spec == Init /\ [][Next]_vars

\* ---------------------------------------------------------- cloud commands
\* The stores that up to k creates on the classes ts, with data fields in
\* vs, build from the empty one.
RECURSIVE StoresOf(_, _, _)
StoresOf(ts, vs, k) ==
    IF k = 0 THEN {EmptyStore}
    ELSE LET P == StoresOf(ts, vs, k - 1)
         IN  P \cup UNION {UNION {{InternalUpdate(d, t, [id |-> i, v |-> x]) :
                                       i \in GenerateIds(d, t), x \in vs} :
                                  t \in ts} :
                           d \in P}

\* The tuple FullCleanCommand.supported_models is built from.
SupportedTuple ==
    <<"SshKey", "Snippet", "SshIdentity", "SshConfig", "Tag", "Group",
      "Host", "PFRule", "TagHost">>

\* Mutant of supported_models: the tuple is iterated as written.
SupportedNotReversed == SupportedTuple

\* FullCleanCommand.supported_models = reversed((...)): what the iterator
\* yields, in order.  The iterator is a class attribute, made once.
supported_models ==
    [i \in 1..Len(SupportedTuple) |-> SupportedTuple[Len(SupportedTuple) + 1 - i]]

Exhausted == it > Len(supported_models)

\* The class whose instances full_clean is deleting.
CurrentModel == supported_models[it - 1]

\* The log of phases; a run of deletes is one entry.
Logged(l, e) ==
    IF e = "delete" /\ l # <<>> /\ l[Len(l)] = "delete" THEN l ELSE Append(l, e)

\* Mutant of TakeAction: every command iterates a list of its own.
TakeActionFresh ==
    /\ pc \in {"idle", "done"}
    /\ runs < MaxRuns
    /\ runs' = runs + 1
    /\ pc' = "get_bulk"
    /\ exc' = "none"
    /\ syncs' = 0
    /\ tombs' = <<>>
    /\ log' = <<>>
    /\ it' = 1
    /\ UNCHANGED <<driver, disk, ret, instances, cleans>>

\* take_action up to process_sync: with self.storage: (outer session).
TakeAction ==
    /\ pc \in {"idle", "done"}
    /\ runs < MaxRuns
    /\ runs' = runs + 1
    /\ pc' = "get_bulk"
    /\ exc' = "none"
    /\ syncs' = 0
    /\ tombs' = <<>>
    /\ log' = <<>>
    /\ UNCHANGED <<driver, disk, ret, it, instances, cleans>>

\* process_sync: api_controller.get_bulk() returns; with self.storage: (inner).
GetBulkReturns ==
    /\ pc = "get_bulk"
    /\ log' = Logged(log, "get_bulk")
    /\ pc' = "full_clean"
    /\ cleans' = cleans + 1
    /\ UNCHANGED <<driver, disk, syncs, tombs, exc, ret, it, instances, runs>>

\* process_sync: api_controller.get_bulk() raises.
GetBulkRaises ==
    /\ pc = "get_bulk"
    /\ exc' = "RemoteError"
    /\ pc' = "exit_outer"
    /\ UNCHANGED <<driver, disk, syncs, tombs, ret, it, instances, log, runs,
                   cleans>>

\* full_clean: the for statement takes the next class from the iterator and
\* get_all lists its instances, or the iterator is exhausted and the loop ends.
FullCleanNext ==
    /\ pc = "full_clean"
    /\ instances = <<>>
    /\ IF Exhausted
       THEN /\ pc' = "exit_inner"
            /\ UNCHANGED <<it, instances>>
       ELSE /\ it' = it + 1
            /\ instances' = GetAll(driver, supported_models[it])
            /\ pc' = pc
    /\ UNCHANGED <<driver, disk, syncs, tombs, exc, ret, log, runs, cleans>>

\* Mutant of FullCleanDelete: the loop runs over the driver's own list, so
\* each delete makes it skip the next instance.
FullCleanDeleteLive ==
    /\ pc = "full_clean"
    /\ instances # <<>>
    /\ driver' = delete(driver, tombs, CurrentModel, Head(instances)).driver
    /\ tombs' = delete(driver, tombs, CurrentModel, Head(instances)).tombs
    /\ instances' = IF Len(instances) >= 2 THEN Tail(Tail(instances)) ELSE <<>>
    /\ log' = Logged(log, "delete")
    /\ UNCHANGED <<pc, exc, disk, syncs, ret, it, runs, cleans>>

\* full_clean: self.storage.delete(i) for the next instance.
FullCleanDelete ==
    /\ pc = "full_clean"
    /\ instances # <<>>
    /\ LET r == delete(driver, tombs, CurrentModel, Head(instances))
       IN  /\ driver' = r.driver
           /\ tombs' = r.tombs
           /\ IF r.status = "ok"
              THEN /\ instances' = Tail(instances)
                   /\ log' = Logged(log, "delete")
                   /\ UNCHANGED <<pc, exc>>
              ELSE /\ instances' = <<>>
                   /\ exc' = r.status
                   /\ pc' = "exit_inner"
                   /\ log' = log
    /\ UNCHANGED <<disk, syncs, ret, it, runs, cleans>>

\* Mutant of ExitInner: full_clean is not wrapped in a with block.
ExitInnerNoSync ==
    /\ pc = "exit_inner"
    /\ pc' = IF exc = "none" THEN "post_bulk" ELSE "exit_outer"
    /\ UNCHANGED <<driver, disk, syncs, tombs, exc, ret, it, instances, log,
                   runs, cleans>>

\* process_sync: leaving the inner with block.
ExitInner ==
    /\ pc = "exit_inner"
    /\ SessionExit
    /\ log' = Logged(log, "sync")
    /\ pc' = IF exc = "none" THEN "post_bulk" ELSE "exit_outer"
    /\ UNCHANGED <<driver, tombs, exc, ret, it, instances, runs, cleans>>

\* process_sync: api_controller.post_bulk() returns.
PostBulkReturns ==
    /\ pc = "post_bulk"
    /\ log' = Logged(log, "post_bulk")
    /\ pc' = "exit_outer"
    /\ UNCHANGED <<driver, disk, syncs, tombs, exc, ret, it, instances, runs,
                   cleans>>

\* process_sync: api_controller.post_bulk() raises.
PostBulkRaises ==
    /\ pc = "post_bulk"
    /\ exc' = "RemoteError"
    /\ pc' = "exit_outer"
    /\ UNCHANGED <<driver, disk, syncs, tombs, ret, it, instances, log, runs,
                   cleans>>

\* take_action: leaving the outer with block; the command ends.
ExitOuter ==
    /\ pc = "exit_outer"
    /\ SessionExit
    /\ log' = Logged(log, "sync")
    /\ pc' = "done"
    /\ UNCHANGED <<driver, tombs, exc, ret, it, instances, runs, cleans>>

InitClean ==
    /\ driver \in StoresOf(Types, {0}, MaxInit)
    /\ disk = driver
    /\ syncs = 0
    /\ tombs = <<>>
    /\ pc = "idle"
    /\ exc = "none"
    /\ ret = NoRet
    /\ it = 1
    /\ instances = <<>>
    /\ log = <<>>
    /\ runs = 0
    /\ cleans = 0

NextClean ==
    \/ TakeAction
    \/ GetBulkReturns
    \/ GetBulkRaises
    \/ FullCleanNext
    \/ FullCleanDelete
    \/ ExitInner
    \/ PostBulkReturns
    \/ PostBulkRaises
    \/ ExitOuter

SpecClean == InitClean /\ [][NextClean]_vars

\* ------------------------------------------------- repeated cloud commands
\* The records get_bulk may bring from the remote side: they carry ids.
RemoteModels == [id : Ids, v : {0}]

\* process_sync: api_controller.get_bulk() saves one remote record into the
\* store and returns; with self.storage: (inner).
GetBulkMerges(t, m) ==
    /\ pc = "get_bulk"
    /\ MayGrow \/ m.id \in IdsOf(driver[t])
    /\ driver' = SaveIdentified(driver, t, m)
    /\ log' = Logged(log, "get_bulk")
    /\ pc' = "full_clean"
    /\ cleans' = cleans + 1
    /\ UNCHANGED <<disk, syncs, tombs, exc, ret, it, instances, runs>>

\* A process that starts on an empty store and pulls what it cleans.
InitRepeat ==
    /\ driver = EmptyStore
    /\ disk = EmptyStore
    /\ syncs = 0
    /\ tombs = <<>>
    /\ pc = "idle"
    /\ exc = "none"
    /\ ret = NoRet
    /\ it = 1
    /\ instances = <<>>
    /\ log = <<>>
    /\ runs = 0
    /\ cleans = 0

NextRepeat ==
    \/ NextClean
    \/ \E t \in Types, m \in RemoteModels : GetBulkMerges(t, m)

SpecRepeat == InitRepeat /\ [][NextRepeat]_vars

\* ------------------------------------------ storage sessions and commands
\* A process that runs a storage session or full-clean commands.
InitAll == Init \/ InitRepeat

NextAll == Next \/ NextRepeat

SpecAll == InitAll /\ [][NextAll]_vars

\* ------------------------------------------------------------------ queries
\* get(model_class, query_union, **kwargs) on a store the operations built,
\* as the first call of the session.
Get(t, q) ==
    /\ pc = "body"
    /\ ret = NoRet
    /\ IF GetStatus(driver, t, q) = "ok"
       THEN Return("get", t, NoModel, q, GetOut(driver, t, q), FALSE)
       ELSE Raise("get", GetStatus(driver, t, q), t, NoModel, q, FALSE)
    /\ tombs' = <<>>
    /\ UNCHANGED <<driver, disk, syncs>>
    /\ CommandIdle

\* filter(model_class, query_union, **kwargs) as the first call of the session.
FilterCall(t, q) ==
    /\ pc = "body"
    /\ ret = NoRet
    /\ IF FilterStatus(q) = "ok"
       THEN Return("filter", t, NoModel, q, Filter(driver, t, q), FALSE)
       ELSE Raise("filter", FilterStatus(q), t, NoModel, q, FALSE)
    /\ tombs' = <<>>
    /\ UNCHANGED <<driver, disk, syncs>>
    /\ CommandIdle

InitQuery ==
    /\ driver \in StoresOf(CrudTypes, Vals, MaxInit)
    /\ disk = driver
    /\ syncs = 0
    /\ tombs = <<>>
    /\ pc = "start"
    /\ exc = "none"
    /\ ret = NoRet
    /\ it = 1
    /\ instances = <<>>
    /\ log = <<>>
    /\ runs = 0
    /\ cleans = 0

NextQuery ==
    \/ Enter
    \/ \E t \in CrudTypes, q \in Queries : Get(t, q)

SpecQuery == InitQuery /\ [][NextQuery]_vars

NextFilter ==
    \/ Enter
    \/ \E t \in CrudTypes, q \in Queries : FilterCall(t, q)

SpecFilter == InitQuery /\ [][NextFilter]_vars

\* ------------------------------------------------------------------ claims
\* C1: starting from empty Record Sets, with an identifier generator that
\* returns ids not in the set, no Record Set ever holds two records with the
\* same id; between the two writes of update the set holds no record with
\* the id being updated.
C1_UniqueIds ==
    /\ \A t \in Types : UniqueIds(driver[t])
    /\ pc = "upd_mark" => CountId(driver[ret.t], ret.m.id) = 0

\* update of a record that was in a set of several, between its two writes.
C1_Witness ==
    /\ pc = "upd_mark"
    /\ ret.found
    /\ driver[ret.t] # <<>>

\* C2: save of a model without an id gives it an id, and get by that id
\* then returns exactly that model, with the field values that were saved.
C2_SaveThenGet ==
    (ret.op = "save" /\ ret.status = "ok" /\ ret.m.id = NoId) =>
        /\ Len(ret.out) = 1
        /\ ret.out[1].id # NoId
        /\ ret.out[1].v = ret.m.v
        /\ GetStatus(driver, ret.t, IdQuery(ret.out[1].id)) = "ok"
        /\ GetOut(driver, ret.t, IdQuery(ret.out[1].id)) = ret.out

\* save of a new model into a set that holds another record already.
C2_Witness ==
    /\ ret.op = "save"
    /\ ret.status = "ok"
    /\ ret.m.id = NoId
    /\ Len(driver[ret.t]) >= 2

\* C3: after delete(m) of an identified model, get_all of m's class holds
\* no record with m's id.
C3_DeletedIsGone ==
    (ret.op = "delete" /\ ret.status = "ok") =>
        \A i \in 1..Len(GetAll(driver, ret.t)) :
            GetAll(driver, ret.t)[i].id # ret.m.id

\* delete removed a record and left others in the set.
C3_Witness ==
    /\ ret.op = "delete"
    /\ ret.status = "ok"
    /\ ret.found
    /\ driver[ret.t] # <<>>

\* C4 as stated: delete of an id that is not in the set fails with the
\* not-found error and registers no tombstone; delete of an id that is in
\* the set returns and registers the tombstone.
C4_AbsentIdRaises ==
    (ret.op = "delete" /\ ret.m.id # NoId) =>
        IF ret.found
        THEN ret.status = "ok" /\ tombs = <<<<ret.t, ret.m.id>>>>
        ELSE ret.status = "DoesNotExistException" /\ tombs = <<>>

\* C4, amended: delete of an identified model returns normally and calls the
\* Delete Strategy with it whether or not the id is in the set; when it is,
\* the record is removed, and when it is not, no Record Set is changed.
C4_AbsentIdIsNoError ==
    [][(pc = "body" /\ pc' # "out" /\ ret'.op = "delete" /\ ret'.m.id # NoId) =>
          /\ ret'.status = "ok"
          /\ tombs' = <<<<ret'.t, ret'.m.id>>>>
          /\ IF ret'.m.id \in IdsOf(driver[ret'.t])
             THEN /\ ret'.found
                  /\ Len(driver'[ret'.t]) = Len(driver[ret'.t]) - 1
                  /\ ret'.m.id \notin IdsOf(driver'[ret'.t])
             ELSE /\ ~ret'.found
                  /\ driver' = driver]_vars

\* delete of an id that is not in a set that holds other records.
C4_Witness ==
    /\ ret.op = "delete"
    /\ ret.status = "ok"
    /\ ret.m.id # NoId
    /\ ~ret.found
    /\ driver[ret.t] # <<>>
    /\ tombs = <<<<ret.t, ret.m.id>>>>

\* The order of deletion C5 states: identities and keys, snippets, ssh
\* configs / tags / groups, hosts, port-forward rules and host-tag pairs.
ClaimedRank(t) ==
    CASE t \in {"SshIdentity", "SshKey"} -> 1
      [] t = "Snippet" -> 2
      [] t \in {"SshConfig", "Tag", "Group"} -> 3
      [] t = "Host" -> 4
      [] t \in {"PFRule", "TagHost"} -> 5

\* C5 as stated: no record of a class later in the stated order is deleted
\* while a record of a class earlier in it is still in the store.
C5_ClaimedOrder ==
    [][\A t \in Types :
          Len(driver'[t]) < Len(driver[t]) =>
              \A u \in Types :
                  ClaimedRank(u) < ClaimedRank(t) => driver[u] = <<>>]_vars

\* The order full_clean deletes in.
DeletionOrder ==
    <<"TagHost", "PFRule", "Host", "Group", "Tag", "SshConfig",
      "SshIdentity", "Snippet", "SshKey">>

DeletionRank(t) == CHOOSE i \in 1..Len(DeletionOrder) : DeletionOrder[i] = t

\* C5, amended: full-clean deletes class by class in the order TagHost,
\* PFRule, Host, Group, Tag, SshConfig, SshIdentity, Snippet, SshKey: no
\* record of a later class is deleted while one of an earlier class remains.
C5_ReversedOrder ==
    [][\A t \in Types :
          Len(driver'[t]) < Len(driver[t]) =>
              \A u \in Types :
                  DeletionRank(u) < DeletionRank(t) => driver[u] = <<>>]_vars

\* A record has been deleted while a record of another class remains.
C5_Witness ==
    /\ pc = "full_clean"
    /\ tombs # <<>>
    /\ \E t \in Types : t # tombs[1][1] /\ driver[t] # <<>>

\* C6: with get_bulk and post_bulk leaving the store alone, the command that
\* runs the first full_clean of the process leaves every one of the nine
\* Record Sets empty, in memory and, once it has ended, in the file.
C6_FirstCleanEmpties ==
    (cleans = 1 /\ log # <<>> /\ pc \in {"post_bulk", "exit_outer", "done"}) =>
        /\ \A t \in Types : driver[t] = <<>>
        /\ pc = "done" => disk = driver

\* The first full-clean has ended on a store that held MaxInit records.
C6_Witness ==
    /\ cleans = 1
    /\ pc = "done"
    /\ exc = "none"
    /\ Len(tombs) = MaxInit
    /\ disk = EmptyStore

IsPrefix(a, b) == Len(a) <= Len(b) /\ \A i \in 1..Len(a) : a[i] = b[i]

CountIn(l, e) == Cardinality({i \in 1..Len(l) : l[i] = e})

\* The phases of a full-clean that returns, with and without records.
CleanPhases ==
    {<<"get_bulk", "delete", "sync", "post_bulk", "sync">>,
     <<"get_bulk", "sync", "post_bulk", "sync">>}

\* C7: a full-clean runs get_bulk, then the local deletions, then sync, then
\* post_bulk, then sync once more as the outer session exits.
C7_PhaseOrder ==
    /\ exc = "none" => \E full \in CleanPhases : IsPrefix(log, full)
    /\ (pc = "done" /\ exc = "none") => log \in CleanPhases /\ syncs = 2
    /\ syncs = CountIn(log, "sync")
    /\ tombs # <<>> => IsPrefix(<<"get_bulk", "delete">>, log)
    /\ pc = "post_bulk" => log[Len(log)] = "sync"

\* A full-clean that deleted records has returned.
C7_Witness ==
    /\ pc = "done"
    /\ exc = "none"
    /\ log = <<"get_bulk", "delete", "sync", "post_bulk", "sync">>

\* C8: leaving the session syncs the driver exactly once, whether the body
\* returned or raised; what the body wrote before it raised is flushed, and
\* the exception goes on to the caller.
C8_ExitSyncsOnce ==
    /\ pc = "out" =>
          /\ syncs = 1
          /\ disk = driver
          /\ exc = (IF ret.status = "ok" THEN "none" ELSE ret.status)
    /\ pc # "out" => syncs = 0 /\ disk = EmptyStore

\* The body raised after it wrote to the store, and the session has exited.
C8_Witness ==
    /\ pc = "out"
    /\ exc = "StrategyError"
    /\ ret.found
    /\ disk # EmptyStore

\* The records of class t that the query matches, by position.
Matching(d, t, q) == {i \in 1..Len(d[t]) : QueryHolds(q, d[t][i])}

\* C9: get returns the one matching model; with no match it raises the
\* not-found error and with several the too-many-entries error, and then no
\* Record Set is changed.
C9_GetCardinality ==
    (ret.op = "get" /\ ret.q.kwargs # {}) =>
        LET hits == Matching(driver, ret.t, ret.q)
        IN  /\ Cardinality(hits) = 1 =>
                  /\ ret.status = "ok"
                  /\ \A i \in hits : ret.out = <<driver[ret.t][i]>>
            /\ Cardinality(hits) = 0 =>
                  ret.status = "DoesNotExistException" /\ pc = "raised"
            /\ Cardinality(hits) >= 2 =>
                  ret.status = "TooManyEntriesException" /\ pc = "raised"
            /\ driver = disk

\* Two lookups with different operators, combined with any, match several.
C9_Witness ==
    /\ ret.op = "get"
    /\ ret.status = "TooManyEntriesException"
    /\ ret.q.union = "any"
    /\ \E a, b \in ret.q.kwargs : a.op # b.op

\* C10: create of a model that carries an id and update of a model without
\* one fail before any write: no Record Set changes and no id is generated.
C10_MisuseFailsFirst ==
    [][(/\ pc = "body"
        /\ pc' # "out"
        /\ \/ ret'.op = "create" /\ ret'.m.id # NoId
           \/ ret'.op = "update" /\ ret'.m.id = NoId) =>
          /\ ret'.status = "AssertionError"
          /\ exc' = "AssertionError"
          /\ pc' = "raised"
          /\ ret'.out = <<>>
          /\ driver' = driver]_vars

\* create of a model with an id has failed on a set that holds records.
C10_Witness ==
    /\ ret.op = "create"
    /\ ret.m.id # NoId
    /\ ret.status = "AssertionError"
    /\ driver[ret.t] # <<>>

\* C11: save of a model that carries an id leaves exactly one record with
\* that id in the set, holding the saved fields, whether or not the id was
\* in the set before; saving the same model again takes that record off the
\* end of the set and puts it back, so the set is what the first save left.
C11_SaveUpserts ==
    /\ []((ret.op = "save" /\ ret.status = "ok" /\ ret.m.id # NoId) =>
            /\ CountId(driver[ret.t], ret.m.id) = 1
            /\ \A i \in 1..Len(driver[ret.t]) :
                  driver[ret.t][i].id = ret.m.id => driver[ret.t][i] = ret.m
            /\ ret.out = <<ret.m>>)
    /\ [][(/\ pc = "body"
            /\ ret.op = "save" /\ ret.status = "ok" /\ ret.m.id # NoId
            /\ pc' = "upd_mark"
            /\ ret'.op = "save" /\ ret'.t = ret.t /\ ret'.m = ret.m) =>
              /\ ret'.found
              /\ driver[ret.t] = Append(driver'[ret.t], ret.m)
              /\ \A u \in Types \ {ret.t} : driver'[u] = driver[u]]_vars
    /\ [][(pc = "upd_mark" /\ pc' = "body" /\ ret'.op = "save") =>
              /\ driver'[ret.t] = Append(driver[ret.t], ret.m)
              /\ \A u \in Types \ {ret.t} : driver'[u] = driver[u]]_vars

\* save replaced a record that was in a set of several.
C11_Witness ==
    /\ pc = "body"
    /\ ret.op = "save"
    /\ ret.status = "ok"
    /\ ret.m.id # NoId
    /\ ret.found
    /\ Len(driver[ret.t]) >= 2
    /\ driver[ret.t][1].id > driver[ret.t][2].id

DeleteRegistersOnce ==
    /\ (ret.op = "delete" /\ ret.status = "ok") =>
          /\ tombs = <<<<ret.t, ret.m.id>>>>
          /\ CountId(driver[ret.t], ret.m.id) = 0
    /\ (ret.op = "delete" /\ ret.m.id = NoId) =>
          /\ ret.status = "AssertionError"
          /\ tombs = <<>>
    /\ \A i \in 1..Len(tombs) :
          /\ CountId(driver[tombs[i][1]], tombs[i][2]) = 0
          /\ CountIn(tombs, tombs[i]) = 1

\* C12: every delete that returns has called the Delete Strategy exactly
\* once with the model, after the record was removed, and a delete of a
\* model without an id has not called it; so when a full-clean has left its
\* inner session and is about to call post_bulk, every record the store held
\* after the pull is registered with the Delete Strategy: the deleted ones
\* by their delete, and none is left that is not.
C12_TombstoneEveryRecord ==
    /\ DeleteRegistersOnce
    /\ (pc \in {"exit_inner", "post_bulk"} /\ exc = "none") =>
          \A t \in Types : \A i \in 1..Len(driver[t]) :
              CountIn(tombs, <<t, driver[t][i].id>>) = 1

\* C13: filter with a predicate returns the models of get_all that satisfy
\* the query, each once and in the order they have in the Record Set, and
\* changes no Record Set; filter without a predicate fails and returns
\* nothing.
C13_FilterSelects ==
    (ret.op = "filter") =>
        /\ driver = disk
        /\ IF ret.q.kwargs = {}
           THEN /\ ret.status = "AssertionError"
                /\ exc = "AssertionError"
                /\ pc = "raised"
                /\ ret.out = <<>>
           ELSE LET all == GetAll(driver, ret.t)
                    hits == Matching(driver, ret.t, ret.q)
                IN  /\ ret.status = "ok"
                    /\ pc = "body"
                    /\ Len(ret.out) = Cardinality(hits)
                    /\ \E f \in [1..Len(ret.out) -> hits] :
                          /\ \A j, k \in 1..Len(ret.out) : j < k => f[j] < f[k]
                          /\ \A k \in 1..Len(ret.out) : ret.out[k] = all[f[k]]

\* filter returned two models, in the order of the set and not of their ids.
C13_Witness ==
    /\ ret.op = "filter"
    /\ ret.status = "ok"
    /\ Len(ret.out) = 2
    /\ ret.out[1].id > ret.out[2].id
    /\ ret.out[1].v # ret.out[2].v

\* C14: every step of save, create, update and delete of a model of one
\* class, whether it returns or raises and wherever the record is in its
\* set, leaves the Record Set of every other class as it was, and writes
\* nothing to the file.
C14_OtherSetsUnchanged ==
    [][pc' # "out" =>
          /\ \A u \in Types \ {ret'.t} : driver'[u] = driver[u]
          /\ disk' = disk]_vars

\* update has replaced a record of a set of two while the set of another
\* class holds a record.
C14_Witness ==
    /\ pc = "body"
    /\ ret.op = "update"
    /\ ret.status = "ok"
    /\ ret.found
    /\ Len(driver[ret.t]) = 2
    /\ \E u \in Types \ {ret.t} : driver[u] # <<>>

\* The records of a set other than the one with the id, in their order.
Others(models, ident) == SelectSeq(models, LAMBDA r : r.id # ident)

\* C15: update(m) takes the record with m's id out of its place in the set
\* and puts m at the end.  The first write leaves the other records, with
\* their contents and in their order, and the second appends m to them: the
\* set is as long as before when the id was in it and one longer when not.
C15_UpdateMovesToEnd ==
    /\ [][(pc = "body" /\ pc' = "upd_mark") =>
              /\ driver'[ret'.t] = Others(driver[ret'.t], ret'.m.id)
              /\ ret'.found = (ret'.m.id \in IdsOf(driver[ret'.t]))
              /\ Len(driver'[ret'.t]) =
                    Len(driver[ret'.t]) - (IF ret'.found THEN 1 ELSE 0)]_vars
    /\ [][(pc = "upd_mark" /\ pc' = "body") =>
              /\ ret' = [ret EXCEPT !.status = "ok", !.out = <<ret.m>>]
              /\ Len(driver'[ret.t]) = Len(driver[ret.t]) + 1
              /\ driver'[ret.t][Len(driver'[ret.t])] = ret.m
              /\ \A i \in 1..Len(driver[ret.t]) :
                    driver'[ret.t][i] = driver[ret.t][i]]_vars

\* update has replaced a record of a set of three: the new version is the
\* last record, after two records with larger ids.
C15_Witness ==
    /\ pc = "body"
    /\ ret.op = "update"
    /\ ret.status = "ok"
    /\ ret.found
    /\ Len(driver[ret.t]) = 3
    /\ ret.m.id < driver[ret.t][1].id
    /\ ret.m.id < driver[ret.t][2].id

\* C17: when mark_model raises in update(m), the record with m's id is out
\* of the Record Set and stays out, the exception leaves the session, and
\* the exit of the session writes the set without that record to the file.
C17_UpdateNotAtomic ==
    (ret.status = "StrategyError") =>
        /\ ret.op \in {"update", "save"}
        /\ pc \in {"raised", "out"}
        /\ exc = "StrategyError"
        /\ ret.out = <<>>
        /\ CountId(driver[ret.t], ret.m.id) = 0
        /\ pc = "raised" => disk = EmptyStore
        /\ pc = "out" =>
              /\ syncs = 1
              /\ disk = driver
              /\ CountId(disk[ret.t], ret.m.id) = 0

\* update of a record of a set of three failed in mark_model, and the
\* session has flushed the two records that were left.
C17_Witness ==
    /\ pc = "out"
    /\ ret.op = "update"
    /\ ret.status = "StrategyError"
    /\ ret.found
    /\ Len(disk[ret.t]) = 2

====
